---- MODULE Spec2Model ----
(***************************************************************************)
(* hdwallet-rs: the HD path parser (HDPath::try_from), the BIP32 key walk  *)
(* (generate_keypair), the KDF dispatch (Kdf::derive) and the persisted    *)
(* shape of KdfParams.                                                     *)
(*                                                                         *)
(* Strings are sequences of characters (one-character strings); "é" stands *)
(* for any character whose UTF-8 encoding is longer than one byte.  A u32  *)
(* is kept as two 16-bit limbs [hi, lo] so that values up to 2^32-1 and    *)
(* the overflow of the checked arithmetic are exact.                       *)
(***************************************************************************)
EXTENDS Integers, Sequences, FiniteSets, TLC

VARIABLES
    path,       \* try_from: the argument `path`
    pc,         \* try_from: position in the function body
    head,       \* try_from: the part split_at(2) cut off (the `_` binding)
    segs,       \* try_from: the segments raw.split('/') has not yielded yet
    res,        \* try_from: the vector `res`
    nparse,     \* try_from: number of s.parse::<u32>() calls made so far
    result,     \* try_from: the returned value, a panic, or nothing yet
    kdf,        \* derive: `self`
    len,        \* derive: the argument `len`
    kdf_salt,   \* derive: the argument `kdf_salt`
    passphrase, \* derive: the argument `passphrase`
    kpc,        \* derive: position in the function body
    log_n,      \* derive: the local `log_n`
    handed,     \* derive: the arguments ScryptParams::new was called with
    key,        \* derive: the vector `key`
    kresult,    \* derive: the returned vector, a panic, or nothing yet
    kp,         \* persisted shape: the KdfParams value that is written
    spc,        \* persisted shape: position (serialize, deserialize, done)
    wire,       \* persisted shape: the serialized record
    back,       \* persisted shape: the result of deserializing `wire`
    hdpath,     \* generate_keypair: the argument `path`
    seed,       \* generate_keypair: the argument `seed`
    gpc,        \* generate_keypair: position in the function body
    xkey,       \* generate_keypair: the extended key derived so far
    ncalls,     \* generate_keypair: number of new_master calls made so far
    failed,     \* generate_keypair: the step that failed, or "none"
    gresult     \* generate_keypair: the returned value, or nothing yet

parseVars == <<path, pc, head, segs, res, nparse, result>>

kdfVars == <<kdf, len, kdf_salt, passphrase, kpc, log_n, handed, key, kresult>>

serdeVars == <<kp, spc, wire, back>>

keyVars == <<hdpath, seed, gpc, xkey, ncalls, failed, gresult>>

vars == <<parseVars, kdfVars, serdeVars, keyVars>>

----------------------------------------------------------------------------
(* Bounds of the explored inputs.                                          *)

MaxLen == 4

MaxSegs == 2

MaxOutLen == 2

MaxPathLen == 2

----------------------------------------------------------------------------
(* u32 arithmetic on two 16-bit limbs.                                     *)

Base == 2^16

U32(h, l) == [hi |-> h, lo |-> l]

Zero32 == U32(0, 0)

Some(v) == [ok |-> TRUE, v |-> v]

None == [ok |-> FALSE]

\* u32::checked_mul by a small factor
checked_mul(a, k) ==
    LET l == a.lo * k
        h == a.hi * k + (l \div Base)
    IN  IF h >= Base THEN None ELSE Some(U32(h, l % Base))

\* u32::checked_add of a small addend
checked_add(a, d) ==
    LET l == a.lo + d
        h == a.hi + (l \div Base)
    IN  IF h >= Base THEN None ELSE Some(U32(h, l % Base))

----------------------------------------------------------------------------
(* Characters and strings.                                                 *)

Digits == {"0", "1", "2", "3", "4", "5", "6", "7", "8", "9"}

to_digit(c) ==
    CASE c = "0" -> 0 [] c = "1" -> 1 [] c = "2" -> 2 [] c = "3" -> 3
      [] c = "4" -> 4 [] c = "5" -> 5 [] c = "6" -> 6 [] c = "7" -> 7
      [] c = "8" -> 8 [] c = "9" -> 9

\* length of the UTF-8 encoding of one character
len_utf8(c) == IF c = "é" THEN 2 ELSE 1

RECURSIVE str_len(_)
\* str::len, in bytes
str_len(s) == IF s = <<>> THEN 0 ELSE len_utf8(Head(s)) + str_len(Tail(s))

\* str::is_char_boundary
is_char_boundary(s, n) ==
    \E k \in 0..Len(s) : str_len(SubSeq(s, 1, k)) = n

\* str::split_at: the two halves, or a panic when mid is not a boundary
split_at(s, mid) ==
    IF is_char_boundary(s, mid)
    THEN LET k == CHOOSE j \in 0..Len(s) : str_len(SubSeq(s, 1, j)) = mid
         IN  [panic |-> FALSE, left |-> SubSeq(s, 1, k),
              right |-> SubSeq(s, k + 1, Len(s))]
    ELSE [panic |-> TRUE]

RECURSIVE split(_, _)
\* str::split(char): the pieces between the separators, empty ones included
split(s, sep) ==
    IF \A i \in 1..Len(s) : s[i] # sep
    THEN <<s>>
    ELSE LET k == CHOOSE i \in 1..Len(s) :
                      s[i] = sep /\ \A j \in 1..(i - 1) : s[j] # sep
         IN  <<SubSeq(s, 1, k - 1)>> \o split(SubSeq(s, k + 1, Len(s)), sep)

ends_with(s, c) == Len(s) > 0 /\ s[Len(s)] = c

\* pop left out: the hardening marker stays on the string that is parsed
pop_forgotten(s) == s

\* String::pop, the string that is left
pop(s) == SubSeq(s, 1, Len(s) - 1)

----------------------------------------------------------------------------
(* HD_PATH_RE = ^m/{1}[^0-9'/]* : 'm' at the start, exactly one '/', then  *)
(* the longest run (possibly empty) of characters outside the class.       *)

HD_PATH_RE_class(c) == c \notin (Digits \cup {"'", "/"})

\* the pattern without its ^ anchor: "m/" may stand anywhere
HD_PATH_RE_unanchored(s) ==
    \E a \in 1..(Len(s) - 1) : s[a] = "m" /\ s[a + 1] = "/"

HD_PATH_RE_is_match(s) ==
    /\ Len(s) >= 2
    /\ s[1] = "m"
    /\ s[2] = "/"
    /\ \E k \in 0..(Len(s) - 2) : \A j \in 3..(2 + k) : HD_PATH_RE_class(s[j])

----------------------------------------------------------------------------
(* <u32 as FromStr>::from_str, radix 10.                                   *)

IntErr(kind) == [ok |-> FALSE, kind |-> kind]

RECURSIVE from_str_digits(_, _)
from_str_digits(digits, acc) ==
    IF digits = <<>>
    THEN Some(acc)
    ELSE IF Head(digits) \notin Digits
    THEN IntErr("InvalidDigit")
    ELSE LET m == checked_mul(acc, 10)
         IN  IF ~m.ok
             THEN IntErr("PosOverflow")
             ELSE LET a == checked_add(m.v, to_digit(Head(digits)))
                  IN  IF ~a.ok
                      THEN IntErr("PosOverflow")
                      ELSE from_str_digits(Tail(digits), a.v)

\* an empty string is Empty, a lone sign InvalidDigit, one leading "+" is
\* skipped (a "-" is no sign for an unsigned type)
parse_u32(s) ==
    IF s = <<>>
    THEN IntErr("Empty")
    ELSE IF Len(s) = 1 /\ s[1] \in {"+", "-"}
    THEN IntErr("InvalidDigit")
    ELSE from_str_digits(IF s[1] = "+" THEN Tail(s) ELSE s, Zero32)

----------------------------------------------------------------------------
(* Values of HDPath::try_from.                                             *)

Hardened(v) == [tag |-> "Hardened", index |-> v]

Normal(v) == [tag |-> "Normal", index |-> v]

NoResult == [tag |-> "None"]

Panic == [tag |-> "Panic"]

Ok(v) == [tag |-> "Ok", val |-> v]

\* ErrorKind::HDWalletError("Invalid HD path format")
PathFormatError ==
    [tag |-> "Err", kind |-> "HDWalletError",
     text |-> "Invalid HD path format", args |-> <<>>]

\* the parse failure dropped from the message
ChildIndexError_bare(e) ==
    [tag |-> "Err", kind |-> "HDWalletError",
     text |-> "Invalid HD path child index", args |-> <<>>]

\* ErrorKind::HDWalletError(format!("Invalid HD path child index: {}", e))
ChildIndexError(e) ==
    [tag |-> "Err", kind |-> "HDWalletError",
     text |-> "Invalid HD path child index: {}",
     args |-> <<[ty |-> "ParseIntError", kind |-> e]>>]

----------------------------------------------------------------------------
(* Inputs of try_from.                                                     *)

Alphabet == {"m", "/", "'", "+", "1", "x", "é"}

RECURSIVE Strings(_)
Strings(n) ==
    IF n = 0
    THEN {<<>>}
    ELSE LET shorter == Strings(n - 1)
         IN  shorter \cup {Append(s, c) : s \in {t \in shorter : Len(t) = n - 1},
                                          c \in Alphabet}

Numerals ==
    { <<"0">>, <<"4", "4">>, <<"0", "0", "7">>,
      <<"2", "1", "4", "7", "4", "8", "3", "6", "4", "7">>,
      <<"2", "1", "4", "7", "4", "8", "3", "6", "4", "8">>,
      <<"4", "2", "9", "4", "9", "6", "7", "2", "9", "5">>,
      <<"4", "2", "9", "4", "9", "6", "7", "2", "9", "6">>,
      <<"+", "4", "2", "9", "4", "9", "6", "7", "2", "9", "5">>,
      <<"0", "0", "0", "0", "0", "0", "0", "0", "0", "0", "0", "6", "0">>,
      <<"9", "9", "9", "9", "9", "9", "9", "9", "9", "9", "x">> }

Tokens == Numerals \cup {Append(t, "'") : t \in Numerals}

RECURSIVE Join(_)
Join(ss) ==
    IF Len(ss) = 1 THEN ss[1] ELSE ss[1] \o <<"/">> \o Join(Tail(ss))

RECURSIVE TokenLists(_)
TokenLists(n) ==
    IF n = 1
    THEN {<<t>> : t \in Tokens}
    ELSE LET shorter == TokenLists(n - 1)
         IN  shorter \cup {Append(l, t) : l \in {u \in shorter : Len(u) = n - 1},
                                          t \in Tokens}

\* the path of the test parse_hdpath
TestPath ==
    <<"m", "/", "4", "4", "'", "/", "6", "0", "'", "/",
      "1", "6", "0", "7", "2", "0", "'", "/", "0", "'">>

Paths ==
    Strings(MaxLen)
        \cup {<<"m", "/">> \o Join(l) : l \in TokenLists(MaxSegs)}
        \cup {TestPath}

----------------------------------------------------------------------------
(* HDPath::try_from, one action per step of its body.                      *)

\* no call of try_from is under way
ParseIdle ==
    /\ path = <<>>
    /\ pc = "idle"
    /\ head = <<>>
    /\ segs = <<>>
    /\ res = <<>>
    /\ nparse = 0
    /\ result = NoResult

ParseStart ==
    /\ path \in Paths
    /\ pc = "is_match"
    /\ head = <<>>
    /\ segs = <<>>
    /\ res = <<>>
    /\ nparse = 0
    /\ result = NoResult

\* if !HD_PATH_RE.is_match(path) { return Err(..) }
CheckFormat ==
    /\ pc = "is_match"
    /\ IF HD_PATH_RE_is_match(path)
       THEN /\ pc' = "split_at"
            /\ result' = result
       ELSE /\ pc' = "done"
            /\ result' = PathFormatError
    /\ UNCHANGED <<path, head, segs, res, nparse>>
    /\ UNCHANGED <<kdfVars, serdeVars, keyVars>>

\* let (_, raw) = path.split_at(2);  raw.split('/')
SplitAt ==
    /\ pc = "split_at"
    /\ LET halves == split_at(path, 2)
       IN  IF halves.panic
           THEN /\ pc' = "done"
                /\ result' = Panic
                /\ UNCHANGED <<head, segs>>
           ELSE /\ pc' = "for"
                /\ head' = halves.left
                /\ segs' = split(halves.right, "/")
                /\ result' = result
    /\ UNCHANGED <<path, res, nparse>>
    /\ UNCHANGED <<kdfVars, serdeVars, keyVars>>

\* one iteration of `for i in raw.split('/')`
ForSegment ==
    /\ pc = "for"
    /\ segs # <<>>
    /\ LET i           == Head(segs)
           is_hardened == ends_with(i, "'")
           s           == IF is_hardened THEN pop(i) ELSE i
           parsed      == parse_u32(s)
       IN  IF parsed.ok
           THEN /\ res' = Append(res, IF is_hardened THEN Hardened(parsed.v)
                                                     ELSE Normal(parsed.v))
                /\ segs' = Tail(segs)
                /\ UNCHANGED <<pc, result>>
           ELSE /\ result' = ChildIndexError(parsed.kind)
                /\ pc' = "done"
                /\ UNCHANGED <<res, segs>>
    /\ nparse' = nparse + 1
    /\ UNCHANGED <<path, head>>
    /\ UNCHANGED <<kdfVars, serdeVars, keyVars>>

\* Ok(HDPath(res))
ReturnOk ==
    /\ pc = "for"
    /\ segs = <<>>
    /\ result' = Ok(res)
    /\ pc' = "done"
    /\ UNCHANGED <<path, head, segs, res, nparse>>
    /\ UNCHANGED <<kdfVars, serdeVars, keyVars>>

ParseNext == CheckFormat \/ SplitAt \/ ForSegment \/ ReturnOk

----------------------------------------------------------------------------
(* Kdf and the primitives Kdf::derive calls.                               *)

KDF_SALT_BYTES == 32

DEFAULT_DK_LENGTH == 32

Prf == {"HmacSha256", "HmacSha512"}

Pbkdf2(prf, c) == [alg |-> "Pbkdf2", prf |-> prf, c |-> c]

Scrypt(n, r, p) == [alg |-> "Scrypt", n |-> n, r |-> r, p |-> p]

PanicWith(msg) == [tag |-> "Panic", msg |-> msg]

Returned(v) == [tag |-> "Returned", val |-> v]

\* a <= b on u32
LE32(a, b) == a.hi < b.hi \/ (a.hi = b.hi /\ a.lo <= b.lo)

IsZero32(a) == a.hi = 0 /\ a.lo = 0

\* the least u32 whose base-2 logarithm rounds to k, that is ceil(2^(k - 1/2))
RoundUpFrom ==
    << U32(0, 2), U32(0, 3), U32(0, 6), U32(0, 12), U32(0, 23), U32(0, 46),
       U32(0, 91), U32(0, 182), U32(0, 363), U32(0, 725), U32(0, 1449),
       U32(0, 2897), U32(0, 5793), U32(0, 11586), U32(0, 23171),
       U32(0, 46341), U32(1, 27146), U32(2, 54292), U32(5, 43048),
       U32(11, 20560), U32(22, 41119), U32(45, 16701), U32(90, 33402),
       U32(181, 1268), U32(362, 2535), U32(724, 5069), U32(1448, 10138),
       U32(2896, 20276), U32(5792, 40551), U32(11585, 15565),
       U32(23170, 31130), U32(46340, 62260) >>

\* the logarithm truncated instead of rounded
log2_floor(n) ==
    Cardinality({k \in 1..31 :
                    LE32(IF k < 16 THEN U32(0, 2^k) ELSE U32(2^(k - 16), 0), n)})

\* (n as f64).log2().round() for n >= 1: f64 holds every u32 exactly and no
\* integer has a logarithm half-way between two integers
log2_round(n) ==
    Cardinality({k \in 1..Len(RoundUpFrom) : LE32(RoundUpFrom[k], n)})

\* `(n as f64).log2().round() as u8`.  log2(0) is -inf: the cast saturates
\* to 0 since rustc 1.45 and is undefined before, so any u8 may come out.
log_n_of(n) == IF IsZero32(n) THEN 0..(2^8 - 1) ELSE {log2_round(n)}

\* r * p >= 2^30 without leaving the 31-bit range
ProductAtLeast2p30(r, p) ==
    /\ ~IsZero32(r)
    /\ ~IsZero32(p)
    /\ \/ r.hi >= 2^14
       \/ p.hi >= 2^14
       \/ LET ri == r.hi * Base + r.lo
              pi == p.hi * Base + p.lo
          IN  pi >= (2^30 + ri - 1) \div ri

\* r * 128 * 2^e >= 2^64, the overflow of a 64-bit usize
WorkOverflows(e, r) ==
    /\ ~IsZero32(r)
    /\ \/ e >= 57
       \/ e >= 42 /\ e < 57 /\ (r.hi >= 1 \/ r.lo >= 2^(57 - e))
       \/ e >= 26 /\ e < 42 /\ r.hi >= 2^(41 - e)

\* ScryptParams::new(log_n, r, p): Ok unless a check of the scrypt crate fails
ScryptParams_new(e, r, p) ==
    IF \/ IsZero32(r)
       \/ IsZero32(p)
       \/ e >= 64
       \/ WorkOverflows(e, r)
       \/ (r.hi = 0 /\ r.lo * 16 <= e)
       \/ ProductAtLeast2p30(r, p)
    THEN None
    ELSE Some([log_n |-> e, r |-> r, p |-> p])

\* the bytes a primitive writes are opaque: each is named by the primitive,
\* its inputs and its position in the output
pbkdf2(hash, password, salt, c, n) ==
    [i \in 1..n |-> [f |-> "pbkdf2", hash |-> hash, password |-> password,
                     salt |-> salt, c |-> c, at |-> i]]

\* scrypt(password, salt, params, output): Err(InvalidOutputLen) on an empty
\* output (an output longer than 32 * (2^32 - 1) bytes is out of the explored range)
scrypt(password, salt, params, n) ==
    IF n = 0
    THEN None
    ELSE Some([i \in 1..n |-> [f |-> "scrypt", password |-> password,
                               salt |-> salt, log_n |-> params.log_n,
                               r |-> params.r, p |-> params.p, at |-> i]])

\* Prf -> the Hmac instance derive picks
HmacOf(prf) == IF prf = "HmacSha256" THEN "Hmac<Sha256>" ELSE "Hmac<Sha512>"

----------------------------------------------------------------------------
(* Inputs of Kdf::derive.                                                  *)

\* KdfDepthLevel: Normal = 1024, High = 8096, Ultra = 262_144
KdfDepthLevel == {U32(0, 1024), U32(0, 8096), U32(4, 0)}

\* Kdf::default()
DefaultKdf == Scrypt(U32(0, 1024), U32(0, 8), U32(0, 1))

WorkFactors ==
    KdfDepthLevel
        \cup { U32(0, 0), U32(0, 1), U32(0, 2), U32(0, 3), U32(0, 1000),
               U32(0, 19201), U32(0, 23170), U32(0, 23171),
               U32(2^15, 0), U32(2^16 - 1, 2^16 - 1) }

BlockSizes == {U32(0, 0), U32(0, 1), U32(0, 8), U32(2^16 - 1, 2^16 - 1)}

Parallelizations == {U32(0, 0), U32(0, 1), U32(2^11, 0)}

Iterations == {U32(0, 0), U32(0, 1), U32(4, 0)}

Kdfs ==
    {Pbkdf2(f, c) : f \in Prf, c \in Iterations}
        \cup {Scrypt(n, r, p) : n \in WorkFactors, r \in BlockSizes,
                                p \in Parallelizations}

ZeroSalt == [i \in 1..KDF_SALT_BYTES |-> 0]

Salts == {ZeroSalt, [i \in 1..KDF_SALT_BYTES |-> i]}

Passphrases == {<<>>, <<"p", "w">>}

NoParams == [log_n |-> -1]

\* no call of derive is under way
KdfIdle ==
    /\ kdf = Pbkdf2("HmacSha256", Zero32)
    /\ len = 0
    /\ kdf_salt = <<>>
    /\ passphrase = <<>>
    /\ kpc = "idle"
    /\ log_n = 0
    /\ handed = NoParams
    /\ key = <<>>
    /\ kresult = NoResult

KdfStart ==
    /\ kdf \in Kdfs
    /\ len \in (0..MaxOutLen) \cup {DEFAULT_DK_LENGTH}
    /\ kdf_salt \in Salts \cup {<<>>}
    /\ passphrase \in Passphrases
    /\ kpc = "alloc"
    /\ log_n = 0
    /\ handed = NoParams
    /\ key = <<>>
    /\ kresult = NoResult

----------------------------------------------------------------------------
(* Kdf::derive, one action per step of its body.                           *)

\* let mut key = vec![0u8; len];
Alloc ==
    /\ kpc = "alloc"
    /\ key' = [i \in 1..len |-> [f |-> "zero", at |-> i]]
    /\ kpc' = "match"
    /\ UNCHANGED <<kdf, len, kdf_salt, passphrase, log_n, handed, kresult>>
    /\ UNCHANGED <<parseVars, serdeVars, keyVars>>

\* Kdf::Pbkdf2 { prf, c } => pbkdf2::<Hmac<..>>(passphrase, kdf_salt, c, &mut key)
DerivePbkdf2 ==
    /\ kpc = "match"
    /\ kdf.alg = "Pbkdf2"
    /\ key' = pbkdf2(HmacOf(kdf.prf), passphrase, kdf_salt, kdf.c, Len(key))
    /\ kpc' = "return"
    /\ UNCHANGED <<kdf, len, kdf_salt, passphrase, log_n, handed, kresult>>
    /\ UNCHANGED <<parseVars, serdeVars, keyVars>>

\* Kdf::Scrypt { n, r, p } => let log_n = (n as f64).log2().round() as u8;
ScryptLogN ==
    /\ kpc = "match"
    /\ kdf.alg = "Scrypt"
    /\ log_n' \in log_n_of(kdf.n)
    /\ kpc' = "params"
    /\ UNCHANGED <<kdf, len, kdf_salt, passphrase, handed, key, kresult>>
    /\ UNCHANGED <<parseVars, serdeVars, keyVars>>

\* ScryptParams::new(log_n, r, p).expect("Invalid Scrypt parameters")
ScryptNewParams ==
    /\ kpc = "params"
    /\ handed' = [log_n |-> log_n, r |-> kdf.r, p |-> kdf.p]
    /\ IF ScryptParams_new(log_n, kdf.r, kdf.p).ok
       THEN /\ kpc' = "scrypt"
            /\ kresult' = kresult
       ELSE /\ kpc' = "done"
            /\ kresult' = PanicWith("Invalid Scrypt parameters")
    /\ UNCHANGED <<kdf, len, kdf_salt, passphrase, log_n, key>>
    /\ UNCHANGED <<parseVars, serdeVars, keyVars>>

\* scrypt(passphrase, kdf_salt, &params, &mut key).expect("Scrypt failed")
ScryptRun ==
    /\ kpc = "scrypt"
    /\ LET params == ScryptParams_new(handed.log_n, handed.r, handed.p).v
           out    == scrypt(passphrase, kdf_salt, params, Len(key))
       IN  IF out.ok
           THEN /\ key' = out.v
                /\ kpc' = "return"
                /\ kresult' = kresult
           ELSE /\ kpc' = "done"
                /\ kresult' = PanicWith("Scrypt failed")
                /\ key' = key
    /\ UNCHANGED <<kdf, len, kdf_salt, passphrase, log_n, handed>>
    /\ UNCHANGED <<parseVars, serdeVars, keyVars>>

\* key
ReturnKey ==
    /\ kpc = "return"
    /\ kresult' = Returned(key)
    /\ kpc' = "done"
    /\ UNCHANGED <<kdf, len, kdf_salt, passphrase, log_n, handed, key>>
    /\ UNCHANGED <<parseVars, serdeVars, keyVars>>

KdfNext ==
    Alloc \/ DerivePbkdf2 \/ ScryptLogN \/ ScryptNewParams \/ ScryptRun \/ ReturnKey

----------------------------------------------------------------------------
(* The persisted shape of KdfParams: serde's Serialize and Deserialize as  *)
(* derived for Prf, Kdf (untagged) and KdfParams (kdf flattened), over a   *)
(* self-describing format.  A record is a function from field names to    *)
(* values; a value is a number, a string or an array.                      *)

KdfParams(k, dklen, salt) == [kdf |-> k, dklen |-> dklen, salt |-> salt]

Num(h, l) == [ty |-> "num", hi |-> h, lo |-> l]

Str(t) == [ty |-> "str", s |-> t]

Arr(items) == [ty |-> "arr", items |-> items]

\* the variant names written without the rename
serialize_Prf_unrenamed(prf) == Str(prf)

\* #[serde(rename = "hmac-sha256")] / #[serde(rename = "hmac-sha512")]
serialize_Prf(prf) ==
    IF prf = "HmacSha256" THEN Str("hmac-sha256") ELSE Str("hmac-sha512")

deserialize_Prf(v) ==
    IF v.ty = "str" /\ v.s = "hmac-sha256" THEN Some("HmacSha256")
    ELSE IF v.ty = "str" /\ v.s = "hmac-sha512" THEN Some("HmacSha512")
    ELSE None

serialize_u32(v) == Num(v.hi, v.lo)

deserialize_u32(v) ==
    IF v.ty = "num" /\ v.hi < Base THEN Some(U32(v.hi, v.lo)) ELSE None

serialize_usize(n) == Num(n \div Base, n % Base)

deserialize_usize(v) ==
    IF v.ty = "num" THEN Some(v.hi * Base + v.lo) ELSE None

\* [u8; 32] is written as a sequence of its bytes
serialize_Salt(salt) == Arr([i \in 1..Len(salt) |-> Num(0, salt[i])])

deserialize_Salt(v) ==
    IF /\ v.ty = "arr"
       /\ Len(v.items) = KDF_SALT_BYTES
       /\ \A i \in 1..Len(v.items) :
             v.items[i].ty = "num" /\ v.items[i].hi = 0 /\ v.items[i].lo < 2^8
    THEN Some([i \in 1..KDF_SALT_BYTES |-> v.items[i].lo])
    ELSE None

\* Kdf is untagged: a variant is written as the bare struct of its fields
serialize_Kdf(k) ==
    IF k.alg = "Pbkdf2"
    THEN [f \in {"prf", "c"} |->
             IF f = "prf" THEN serialize_Prf(k.prf) ELSE serialize_u32(k.c)]
    ELSE [f \in {"n", "r", "p"} |->
             serialize_u32(IF f = "n" THEN k.n ELSE IF f = "r" THEN k.r ELSE k.p)]

HasFields(m, fs) == fs \subseteq DOMAIN m

\* untagged: the variants are tried in declaration order, the first whose
\* fields are all present and well-typed wins; other fields are ignored
deserialize_Kdf(m) ==
    IF /\ HasFields(m, {"prf", "c"})
       /\ deserialize_Prf(m["prf"]).ok
       /\ deserialize_u32(m["c"]).ok
    THEN Some(Pbkdf2(deserialize_Prf(m["prf"]).v, deserialize_u32(m["c"]).v))
    ELSE IF /\ HasFields(m, {"n", "r", "p"})
            /\ deserialize_u32(m["n"]).ok
            /\ deserialize_u32(m["r"]).ok
            /\ deserialize_u32(m["p"]).ok
    THEN Some(Scrypt(deserialize_u32(m["n"]).v, deserialize_u32(m["r"]).v,
                     deserialize_u32(m["p"]).v))
    ELSE None

\* #[serde(flatten)] kdf: the fields of kdf lie beside dklen and salt
serialize_KdfParams(x) ==
    LET inner == serialize_Kdf(x.kdf)
    IN  [f \in DOMAIN inner \cup {"dklen", "salt"} |->
            IF f = "dklen" THEN serialize_usize(x.dklen)
            ELSE IF f = "salt" THEN serialize_Salt(x.salt)
            ELSE inner[f]]

\* dklen and salt are taken by name, every other entry goes to kdf
deserialize_KdfParams(m) ==
    LET rest  == [f \in DOMAIN m \ {"dklen", "salt"} |-> m[f]]
        inner == deserialize_Kdf(rest)
    IN  IF /\ HasFields(m, {"dklen", "salt"})
           /\ deserialize_usize(m["dklen"]).ok
           /\ deserialize_Salt(m["salt"]).ok
           /\ inner.ok
        THEN Ok(KdfParams(inner.v, deserialize_usize(m["dklen"]).v,
                          deserialize_Salt(m["salt"]).v))
        ELSE [tag |-> "Err"]

DkLens == {0, 1, DEFAULT_DK_LENGTH, 2 * DEFAULT_DK_LENGTH}

NoWire == [none |-> Str("")]

\* no record is being written or read
SerdeIdle ==
    /\ kp = KdfParams(DefaultKdf, DEFAULT_DK_LENGTH, ZeroSalt)
    /\ spc = "idle"
    /\ wire = NoWire
    /\ back = NoResult

SerdeStart ==
    /\ kp \in {KdfParams(k, d, t) : k \in Kdfs, d \in DkLens, t \in Salts}
    /\ spc = "serialize"
    /\ wire = NoWire
    /\ back = NoResult

Serialize ==
    /\ spc = "serialize"
    /\ wire' = serialize_KdfParams(kp)
    /\ spc' = "deserialize"
    /\ UNCHANGED <<kp, back>>
    /\ UNCHANGED <<parseVars, kdfVars, keyVars>>

Deserialize ==
    /\ spc = "deserialize"
    /\ back' = deserialize_KdfParams(wire)
    /\ spc' = "done"
    /\ UNCHANGED <<kp, wire>>
    /\ UNCHANGED <<parseVars, kdfVars, keyVars>>

SerdeNext == Serialize \/ Deserialize

----------------------------------------------------------------------------
(* generate_keypair.  Keys are opaque: an extended key is named by the     *)
(* seed and the child numbers applied to it.  Whether a derived scalar is  *)
(* a valid secp256k1 key is decided by the hash output, so every step has  *)
(* both outcomes.                                                          *)

\* ExtendedPrivKey::new_master(&secp, Network::Bitcoin, seed)
new_master(sd, valid) ==
    IF valid THEN Some([seed |-> sd, chain |-> <<>>]) ELSE None

\* an invalid child answered by moving on to the next index
ckd_priv_next_index(k, cn, valid) ==
    IF cn.index.hi >= 2^15
    THEN None
    ELSE IF valid
    THEN Some([seed |-> k.seed, chain |-> Append(k.chain, cn)])
    ELSE Some([seed |-> k.seed,
               chain |-> Append(k.chain,
                                [tag |-> cn.tag,
                                 index |-> U32(cn.index.hi, cn.index.lo + 1)])])

\* ExtendedPrivKey::ckd_priv: an index of 2^31 or more is an
\* InvalidChildNumber, an invalid tweak a secp256k1 error
ckd_priv(k, cn, valid) ==
    IF cn.index.hi >= 2^15 \/ ~valid
    THEN None
    ELSE Some([seed |-> k.seed, chain |-> Append(k.chain, cn)])

\* SecretKey::from_raw(&bytes)
from_raw(k, valid) ==
    IF valid THEN Some([secret_of |-> k]) ELSE None

\* Error::from(bip32::Error) through the `?`
Bip32Error == [tag |-> "Err", kind |-> "Bip32"]

\* ErrorKind::Secp256k1Error(format!("{:?}", err))
Secp256k1Error == [tag |-> "Err", kind |-> "Secp256k1Error"]

ChildNumbers ==
    {Normal(U32(0, 0)), Hardened(U32(0, 0)), Hardened(U32(0, 44)),
     Normal(U32(2^15, 0))}

RECURSIVE HDPaths(_)
HDPaths(n) ==
    IF n = 0
    THEN {<<>>}
    ELSE LET shorter == HDPaths(n - 1)
         IN  shorter \cup {Append(l, c) : l \in {u \in shorter : Len(u) = n - 1},
                                          c \in ChildNumbers}

\* the path of the test test_key_generation
TestHDPath ==
    <<Hardened(U32(0, 44)), Hardened(U32(0, 60)), Hardened(U32(2, 29648)),
      Hardened(U32(0, 0)), Normal(U32(0, 0))>>

Seeds == {<<0>>, <<1, 2>>}

NoKey == [seed |-> <<>>, chain |-> <<>>]

\* no call of generate_keypair is under way
KeyIdle ==
    /\ hdpath = <<>>
    /\ seed = <<>>
    /\ gpc = "idle"
    /\ xkey = NoKey
    /\ ncalls = 0
    /\ failed = "none"
    /\ gresult = NoResult

KeyStart ==
    /\ hdpath \in HDPaths(MaxPathLen) \cup {TestHDPath}
    /\ seed \in Seeds
    /\ gpc = "new_master"
    /\ xkey = NoKey
    /\ ncalls = 0
    /\ failed = "none"
    /\ gresult = NoResult

\* ExtendedPrivKey::new_master(..) -- the error leaves through and_then and `?`
NewMaster ==
    /\ gpc = "new_master"
    /\ \E valid \in BOOLEAN :
          LET m == new_master(seed, valid)
          IN  IF m.ok
              THEN /\ xkey' = m.v
                   /\ gpc' = "from_path"
                   /\ UNCHANGED <<failed, gresult>>
              ELSE /\ gresult' = Bip32Error
                   /\ failed' = "new_master"
                   /\ gpc' = "done"
                   /\ xkey' = xkey
    /\ ncalls' = ncalls + 1
    /\ UNCHANGED <<hdpath, seed>>
    /\ UNCHANGED <<parseVars, kdfVars, serdeVars>>

\* one iteration of ExtendedPrivKey::from_path: sk = sk.ckd_priv(secp, num)?
CkdStep ==
    /\ gpc = "from_path"
    /\ Len(xkey.chain) < Len(hdpath)
    /\ \E valid \in BOOLEAN :
          LET c == ckd_priv(xkey, hdpath[Len(xkey.chain) + 1], valid)
          IN  IF c.ok
              THEN /\ xkey' = c.v
                   /\ UNCHANGED <<gpc, failed, gresult>>
              ELSE /\ gresult' = Bip32Error
                   /\ failed' = "ckd_priv"
                   /\ gpc' = "done"
                   /\ xkey' = xkey
    /\ UNCHANGED <<hdpath, seed, ncalls>>
    /\ UNCHANGED <<parseVars, kdfVars, serdeVars>>

\* match SecretKey::from_raw(&bytes) { Ok(secret) => Ok(secret), Err(err) => Err(..) }
FromRaw ==
    /\ gpc = "from_path"
    /\ Len(xkey.chain) >= Len(hdpath)
    /\ \E valid \in BOOLEAN :
          LET k == from_raw(xkey, valid)
          IN  IF k.ok
              THEN /\ gresult' = Ok(k.v)
                   /\ failed' = failed
              ELSE /\ gresult' = Secp256k1Error
                   /\ failed' = "from_raw"
    /\ gpc' = "done"
    /\ UNCHANGED <<hdpath, seed, xkey, ncalls>>
    /\ UNCHANGED <<parseVars, kdfVars, serdeVars>>

KeyNext == NewMaster \/ CkdStep \/ FromRaw

----------------------------------------------------------------------------
(* The specifications, one per entry point.                                *)

ParseInit == ParseStart /\ KdfIdle /\ SerdeIdle /\ KeyIdle

SpecParse == ParseInit /\ [][ParseNext]_vars

KdfInit == KdfStart /\ ParseIdle /\ SerdeIdle /\ KeyIdle

SpecKdf == KdfInit /\ [][KdfNext]_vars

SerdeInit == SerdeStart /\ ParseIdle /\ KdfIdle /\ KeyIdle

SpecSerde == SerdeInit /\ [][SerdeNext]_vars

KeyInit == KeyStart /\ ParseIdle /\ KdfIdle /\ SerdeIdle

SpecKey == KeyInit /\ [][KeyNext]_vars

----------------------------------------------------------------------------
(* The path grammar, stated on positions of the input and on decimal       *)
(* numerals rather than through the parser's own helpers.                  *)

StartsWithRoot(p) == Len(p) >= 2 /\ p[1] = "m" /\ p[2] = "/"

SlashPos(p) == {i \in 3..Len(p) : p[i] = "/"}

NumSegs(p) == Cardinality(SlashPos(p)) + 1

\* position of the k-th "/" after the root marker; 2 for k = 0 and
\* Len(p) + 1 past the last one
Slash(p, k) ==
    IF k = 0 THEN 2
    ELSE IF k > Cardinality(SlashPos(p)) THEN Len(p) + 1
    ELSE CHOOSE i \in SlashPos(p) :
             Cardinality({j \in SlashPos(p) : j < i}) = k - 1

Seg(p, k) == SubSeq(p, Slash(p, k - 1) + 1, Slash(p, k) - 1)

IsHardenedSeg(g) == Len(g) > 0 /\ g[Len(g)] = "'"

Core(g) == IF IsHardenedSeg(g) THEN SubSeq(g, 1, Len(g) - 1) ELSE g

IsNumeral(d) == Len(d) > 0 /\ \A i \in 1..Len(d) : d[i] \in Digits

DigitChars == <<"0", "1", "2", "3", "4", "5", "6", "7", "8", "9">>

Rank(c) == (CHOOSE i \in 1..10 : DigitChars[i] = c) - 1

StripZeros(d) ==
    LET nz == {i \in 1..Len(d) : d[i] # "0"}
    IN  IF nz = {} THEN <<"0">>
        ELSE SubSeq(d, CHOOSE i \in nz : \A j \in nz : i <= j, Len(d))

U32MaxNumeral == <<"4", "2", "9", "4", "9", "6", "7", "2", "9", "5">>

\* a <= b for numerals of the same length
NumeralLE(a, b) ==
    \/ a = b
    \/ \E i \in 1..Len(a) :
          /\ Rank(a[i]) < Rank(b[i])
          /\ \A j \in 1..(i - 1) : a[j] = b[j]

FitsU32(d) ==
    LET t == StripZeros(d)
    IN  \/ Len(t) < Len(U32MaxNumeral)
        \/ Len(t) = Len(U32MaxNumeral) /\ NumeralLE(t, U32MaxNumeral)

IsIndexSeg(g) == IsNumeral(Core(g)) /\ FitsU32(Core(g))

WellFormed(p) ==
    /\ StartsWithRoot(p)
    /\ \A k \in 1..NumSegs(p) : IsIndexSeg(Seg(p, k))

RECURSIVE Decimal(_)
\* the decimal numeral of a u32, by repeated division
Decimal(v) ==
    IF v.hi = 0 /\ v.lo < 10
    THEN <<DigitChars[v.lo + 1]>>
    ELSE LET t == (v.hi % 10) * Base + v.lo
         IN  Decimal(U32(v.hi \div 10, t \div 10)) \o <<DigitChars[(t % 10) + 1]>>

----------------------------------------------------------------------------
\* C1: every path "m/" + n >= 1 segments, each a decimal u32 with an
\* optional trailing "'", parses to Ok with exactly n ChildNumbers, the k-th
\* being Hardened(i_k) when the k-th segment ends in "'" and Normal(i_k)
\* otherwise, in input order.
C1_WellFormedParses ==
    (pc = "done" /\ WellFormed(path)) =>
        /\ result.tag = "Ok"
        /\ Len(result.val) = NumSegs(path)
        /\ \A k \in 1..NumSegs(path) :
              /\ result.val[k].tag =
                     (IF IsHardenedSeg(Seg(path, k)) THEN "Hardened" ELSE "Normal")
              /\ Decimal(result.val[k].index) = StripZeros(Core(Seg(path, k)))

\* the test vector m/44'/60'/160720'/0' has been parsed
C1_Witness ==
    /\ pc = "done"
    /\ path = TestPath
    /\ result = Ok(<<Hardened(U32(0, 44)), Hardened(U32(0, 60)),
                     Hardened(U32(2, 29648)), Hardened(U32(0, 0))>>)

\* C2: every malformed path string is answered with an Err value and never
\* with a panic, and split_at(2) is only reached with a string whose first
\* two bytes are "m/".
C2_MalformedRejected ==
    /\ (pc = "done" /\ ~WellFormed(path)) => result.tag = "Err"
    /\ result.tag # "Panic"
    /\ (pc \in {"split_at", "for"}) => StartsWithRoot(path)
    /\ (pc = "for") => head = <<"m", "/">>

\* the first segment, if any, that is not a decimal u32 index
HasBadSeg(p) == \E k \in 1..NumSegs(p) : ~IsIndexSeg(Seg(p, k))

FirstBadSeg(p) ==
    Seg(p, CHOOSE k \in 1..NumSegs(p) :
               /\ ~IsIndexSeg(Seg(p, k))
               /\ \A j \in 1..(k - 1) : IsIndexSeg(Seg(p, j)))

NamesSegment(r, g) ==
    \E a \in 1..Len(r.args) : r.args[a].ty = "str" /\ r.args[a].chars = g

NamesParseFailure(r) ==
    \E a \in 1..Len(r.args) : r.args[a].ty = "ParseIntError"

IsChildIndexError(r) ==
    r.tag = "Err" /\ r.text = "Invalid HD path child index: {}"

Unsigned(d) == IF Len(d) > 0 /\ d[1] = "+" THEN SubSeq(d, 2, Len(d)) ELSE d

ParseAccepts(d) == IsNumeral(Unsigned(d)) /\ FitsU32(Unsigned(d))

\* the failure the integer parse reports for a string it rejects
ExpectedFailure(d) ==
    LET u  == Unsigned(d)
        nd == CHOOSE i \in 1..(Len(u) + 1) :
                  /\ (i <= Len(u) => u[i] \notin Digits)
                  /\ \A j \in 1..(i - 1) : u[j] \in Digits
        pre == SubSeq(u, 1, nd - 1)
    IN  IF d = <<>> THEN "Empty"
        ELSE IF pre # <<>> /\ ~FitsU32(pre) THEN "PosOverflow"
        ELSE "InvalidDigit"

HasRejectedSeg(p) == \E k \in 1..NumSegs(p) : ~ParseAccepts(Core(Seg(p, k)))

FirstRejectedSeg(p) ==
    Seg(p, CHOOSE k \in 1..NumSegs(p) :
               /\ ~ParseAccepts(Core(Seg(p, k)))
               /\ \A j \in 1..(k - 1) : ParseAccepts(Core(Seg(p, j))))

C4_FormatErrorIffNoRoot ==
    /\ (nparse > 0 \/ pc \in {"split_at", "for"}) => StartsWithRoot(path)
    /\ (pc = "done" /\ ~StartsWithRoot(path)) =>
           (result = PathFormatError /\ nparse = 0 /\ res = <<>>)
    /\ (pc = "done" /\ StartsWithRoot(path)) => result # PathFormatError

\* x/1' was refused for its format although its segment is a fine index
C4_Witness ==
    /\ pc = "done"
    /\ path = <<"x", "/", "1", "'">>
    /\ result = PathFormatError
    /\ nparse = 0

\* C8: every ChildNumber of a successfully parsed path has its index in
\* [0, 2^31).
C8_IndexBelow2p31 ==
    (pc = "done" /\ result.tag = "Ok") =>
        \A k \in 1..Len(result.val) : result.val[k].index.hi < 2^15

----------------------------------------------------------------------------
(* Powers of two as u32.                                                   *)

Pow2_32(k) == IF k < 16 THEN U32(0, 2^k) ELSE U32(2^(k - 16), 0)

IsPowerOfTwo32(n) == \E k \in 0..31 : n = Pow2_32(k)

\* C5 as stated: for Scrypt, derive answers every non-constructible
\* parameter combination (n not a power of two, n, r or p zero, r * p beyond
\* the limit) with a KdfParameterError result and a failed scrypt run with a
\* KdfExecutionError result, and never aborts.
C5_ScryptErrorsReturned ==
    (kpc = "done" /\ kdf.alg = "Scrypt") =>
        /\ kresult.tag # "Panic"
        /\ (\/ ~IsPowerOfTwo32(kdf.n)
            \/ IsZero32(kdf.r)
            \/ IsZero32(kdf.p)
            \/ ProductAtLeast2p30(kdf.r, kdf.p))
               => (kresult.tag = "Err" /\ kresult.kind = "KdfParameterError")

\* C6 as stated: for both algorithms and every len, salt and passphrase,
\* derive returns a byte vector of exactly len bytes.
C6_OutputLength ==
    (kpc = "done") => (kresult.tag = "Returned" /\ Len(kresult.val) = len)

\* C9: the exponent handed to the scrypt primitive is log2(n) rounded to the
\* nearest integer, as a u8, with r and p unchanged; n = 2^k (0 <= k <= 31)
\* gives exactly k; the derived key is a function of the exponent, not of n.
C9_ExponentIsRoundedLog2 ==
    (kdf.alg = "Scrypt" /\ handed # NoParams) =>
        /\ handed.r = kdf.r
        /\ handed.p = kdf.p
        /\ handed.log_n \in 0..(2^8 - 1)
        /\ \A k \in 0..31 : (kdf.n = Pow2_32(k)) => (handed.log_n = k)
        \* within one of the logarithm for every n >= 1
        /\ ~IsZero32(kdf.n) =>
              /\ handed.log_n <= 32
              /\ (handed.log_n >= 1 => LE32(Pow2_32(handed.log_n - 1), kdf.n))
              /\ (handed.log_n <= 30 => LE32(kdf.n, Pow2_32(handed.log_n + 1)))
        \* nearest: 2^(2e-1) < n^2 < 2^(2e+1), where the squares fit
        /\ (kdf.n.hi = 0 /\ kdf.n.lo > 0 /\ kdf.n.lo < 2^15) =>
              /\ handed.log_n <= 15
              /\ 2 * kdf.n.lo * kdf.n.lo > 4^handed.log_n
              /\ (kdf.n.lo * kdf.n.lo) \div 2 < 4^handed.log_n
        /\ (kresult.tag = "Returned") =>
              kresult.val = [i \in 1..len |->
                                [f |-> "scrypt", password |-> passphrase,
                                 salt |-> kdf_salt, log_n |-> handed.log_n,
                                 r |-> kdf.r, p |-> kdf.p, at |-> i]]

\* the default Scrypt{n: 1024, r: 8, p: 1} has derived a 32-byte key with
\* exponent 10
C9_Witness ==
    /\ kpc = "done"
    /\ kdf = DefaultKdf
    /\ len = DEFAULT_DK_LENGTH
    /\ handed.log_n = 10
    /\ kresult.tag = "Returned"

\* C7: deserializing the serialized record of any KdfParams gives back the
\* same value (variant, cost parameters, dklen, salt); the record holds the
\* kdf fields beside dklen and salt, and the variant follows from which
\* fields are present.
C7_RoundTrip ==
    /\ (spc = "done") => back = Ok(kp)
    /\ (spc \in {"deserialize", "done"}) =>
          /\ DOMAIN wire = (IF kp.kdf.alg = "Pbkdf2" THEN {"prf", "c"}
                                                     ELSE {"n", "r", "p"})
                               \cup {"dklen", "salt"}
          /\ wire["salt"].ty = "arr"
          /\ Len(wire["salt"].items) = KDF_SALT_BYTES
    /\ (spc = "done" /\ back.tag = "Ok") =>
          /\ (back.val.kdf.alg = "Pbkdf2") <=> ({"prf", "c"} \subseteq DOMAIN wire)
          /\ (back.val.kdf.alg = "Scrypt") <=> ({"n", "r", "p"} \subseteq DOMAIN wire)

\* a Pbkdf2 record with hmac-sha512 has come back as written
C7_Witness ==
    /\ spc = "done"
    /\ kp.kdf = Pbkdf2("HmacSha512", U32(4, 0))
    /\ kp.salt # ZeroSalt
    /\ wire["prf"] = Str("hmac-sha512")
    /\ back = Ok(kp)

\* C10: generate_keypair makes one derivation attempt: the master key from
\* the seed, then the path's ChildNumbers one at a time in order, then the
\* validation of the final scalar; a failure of any of these returns an
\* error at that point, no SecretKey follows a failure, and nothing is
\* retried with another index or other inputs.
C10_SingleAttempt ==
    /\ ncalls <= 1
    /\ (gpc \in {"from_path", "done"}) => ncalls = 1
    /\ xkey.chain = SubSeq(hdpath, 1, Len(xkey.chain))
    /\ (xkey # NoKey) => xkey.seed = seed
    /\ (failed # "none") => (gpc = "done" /\ gresult.tag = "Err")
    /\ (gresult.tag = "Ok") =>
          /\ failed = "none"
          /\ gresult.val = [secret_of |-> [seed |-> seed, chain |-> hdpath]]
    /\ (gpc = "done") => gresult.tag \in {"Ok", "Err"}
    /\ (gpc = "done" /\ gresult.tag = "Err") => failed # "none"

\* the walk stopped at the second child with an error, the first applied
C10_Witness ==
    /\ gpc = "done"
    /\ Len(hdpath) = 2
    /\ Len(xkey.chain) = 1
    /\ failed = "ckd_priv"
    /\ gresult = Bip32Error
    /\ ncalls = 1

====
